---- MODULE Spec2Model ----
(***************************************************************************)
(* Model of the aggregation pipeline of scraper.py: filter_by_date,        *)
(* deduplicate / is_better_source, assign_tags, score_article and the      *)
(* selection and display ordering done in main().                          *)
(*                                                                         *)
(* Text is a sequence of one-character strings, so that lower(), the two   *)
(* re.sub() normalisations, slicing and the substring test `in` are        *)
(* computed character by character.  A datetime is a number of seconds     *)
(* since datetime.min; an optional datetime is <<>> (None) or <<t>>.       *)
(***************************************************************************)
EXTENDS Integers, Sequences, FiniteSets, TLC

VARIABLES
    pc,          \* position in main(), or in the function under analysis
    now,         \* the clock read by datetime.now(timezone.utc)
    max_items,   \* the configured MAX_ITEMS used by main()
    raw,         \* all_articles as collected from the queries
    cutoff,      \* the local `cutoff` of filter_by_date
    articles,    \* all_articles after filter_by_date: the argument of deduplicate
    idx,         \* number of articles the loop of deduplicate has consumed
    seen,        \* the OrderedDict of deduplicate: <<[key, val], ...>> in insertion order
    deduped,     \* all_articles after deduplicate
    scored,      \* the list of (article, tags, score) built by main()
    top          \* the selected items

vars == <<pc, now, max_items, raw, cutoff, articles, idx, seen, deduped, scored, top>>

----------------------------------------------------------------------------
(* Configuration, lines 22-23 *)

MAX_ITEMS == 15

MAX_AGE_DAYS == 60

(* timedelta(days=1) in seconds; timedelta.days is the floor of seconds / 86400 *)
SecondsPerDay == 86400

(* datetime.min.replace(tzinfo=timezone.utc), the origin of the time axis *)
DatetimeMin == 0

(* the slice norm[:60] *)
KeyLen == 60

(* the constant 60 of the recency bonus, 8 per tag, 5 per term, 10 and 15 for sources *)
RecencyMax == 60

TagWeight == 8

TermWeight == 5

PremiumBonus == 10

LowQualityPenalty == 15

----------------------------------------------------------------------------
(* Text *)

UpperLetters ==
    <<"A","B","C","D","E","F","G","H","I","J","K","L","M",
      "N","O","P","Q","R","S","T","U","V","W","X","Y","Z">>

LowerLetters ==
    <<"a","b","c","d","e","f","g","h","i","j","k","l","m",
      "n","o","p","q","r","s","t","u","v","w","x","y","z">>

Digits == {"0","1","2","3","4","5","6","7","8","9"}

(* what \s matches (and what str.strip() strips) among the characters used *)
Whitespace == {" ", "\t", "\n", "\r"}

Range(s) == {s[j] : j \in DOMAIN s}

Min(a, b) == IF a <= b THEN a ELSE b

Max(a, b) == IF a >= b THEN a ELSE b

LowerOf == [c \in Range(UpperLetters) |->
               LowerLetters[CHOOSE j \in 1..26 : UpperLetters[j] = c]]

LowerChar(c) == IF c \in DOMAIN LowerOf THEN LowerOf[c] ELSE c

(* str.lower() *)
Lower(s) == [j \in 1..Len(s) |-> LowerChar(s[j])]

(* the operator `sub in s` on str *)
Contains(s, sub) ==
    \E j \in 0..(Len(s) - Len(sub)) : \A k \in 1..Len(sub) : s[j + k] = sub[k]

(* the character class [a-z0-9 ] *)
KeptChars == Range(LowerLetters) \cup Digits \cup {" "}

KeptChar(c) == c \in KeptChars

(* re.sub(r'[^a-z0-9 ]', '', s) *)
StripPunct(s) == SelectSeq(s, KeptChar)

(* re.sub(r'\s+', ' ', s): every maximal run of whitespace becomes one space *)
RECURSIVE CollapseWs(_)
CollapseWs(s) ==
    IF s = <<>> THEN <<>>
    ELSE IF Head(s) \in Whitespace
         THEN IF Len(s) > 1 /\ s[2] \in Whitespace
              THEN CollapseWs(Tail(s))
              ELSE <<" ">> \o CollapseWs(Tail(s))
         ELSE <<Head(s)>> \o CollapseWs(Tail(s))

RECURSIVE LStrip(_)
LStrip(s) ==
    IF s # <<>> /\ Head(s) \in Whitespace THEN LStrip(Tail(s)) ELSE s

RECURSIVE RStrip(_)
RStrip(s) ==
    IF s # <<>> /\ s[Len(s)] \in Whitespace
    THEN RStrip(SubSeq(s, 1, Len(s) - 1)) ELSE s

(* str.strip() *)
Strip(s) == RStrip(LStrip(s))

(* the slice s[:n] for n >= 0 *)
Prefix(s, n) == SubSeq(s, 1, Min(n, Len(s)))

----------------------------------------------------------------------------
(* Tables *)

TAG_RULES ==
    << [tag |-> "UAV / Drones", keywords |->
          << <<"d","r","o","n","e">>, <<"u","a","v">>, <<"u","a","s">>, <<"f","p","v">>,
             <<"u","n","m","a","n","n","e","d">>, <<"c","o","u","n","t","e","r","-","d","r","o","n","e">>,
             <<"c","o","u","n","t","e","r","-","u","a","s">>, <<"q","u","a","d","c","o","p","t","e","r">>,
             <<"v","t","o","l">> >>],
       [tag |-> "Investment", keywords |->
          << <<"i","n","v","e","s","t">>, <<"f","u","n","d","i","n","g">>,
             <<"s","e","r","i","e","s"," ","a">>, <<"s","e","r","i","e","s"," ","b">>, <<"s","e","e","d">>,
             <<"r","a","i","s","e">>, <<"v","e","n","t","u","r","e">>, <<"c","a","p","i","t","a","l">>,
             <<"v","c"," ">>, <<"r","o","u","n","d">>, <<"v","a","l","u","a","t","i","o","n">>,
             <<"i","p","o">>, <<"s","p","a","c">>, <<"a","c","q","u","i","s","i","t","i","o","n">>,
             <<"m","e","r","g","e","r">>, <<"m","&","a">> >>],
       [tag |-> "Ukraine", keywords |->
          << <<"u","k","r","a","i","n","e">>, <<"u","k","r","a","i","n","i","a","n">>, <<"k","y","i","v">>,
             <<"k","i","e","v">>, <<"z","e","l","e","n","s","k">> >>],
       [tag |-> "EU Policy", keywords |->
          << <<"e","u","r","o","p","e","a","n">>, <<"e","u"," ">>, <<"n","a","t","o">>,
             <<"e","d","i","r","p","a">>, <<"e","d","i","p">>, <<"a","u","k","u","s">>,
             <<"b","r","u","s","s","e","l","s">>,
             <<"e","u","r","o","p","e","a","n"," ","c","o","m","m","i","s","s","i","o","n">>,
             <<"e","u","r","o","p","e","a","n"," ","d","e","f","e","n","s","e">>,
             <<"e","u","r","o","p","e","a","n"," ","d","e","f","e","n","c","e">> >>],
       [tag |-> "UK", keywords |->
          << <<"u","k"," ">>, <<"u","n","i","t","e","d"," ","k","i","n","g","d","o","m">>,
             <<"b","r","i","t","i","s","h">>, <<"m","o","d"," ">>, <<"d","s","t","l">>,
             <<"m","i","n","i","s","t","r","y"," ","o","f"," ","d","e","f","e","n","c","e">>,
             <<"l","o","n","d","o","n">> >>],
       [tag |-> "US", keywords |->
          << <<"p","e","n","t","a","g","o","n">>, <<"d","o","d"," ">>,
             <<"d","e","p","a","r","t","m","e","n","t"," ","o","f"," ","d","e","f","e","n","s","e">>,
             <<"d","a","r","p","a">>, <<"d","i","u"," ">>, <<"c","o","n","g","r","e","s","s">>,
             <<"u","s"," ","m","i","l","i","t","a","r","y">>, <<"u","s"," ","d","e","f","e","n","s","e">>,
             <<"u","s"," ","d","e","f","e","n","c","e">>,
             <<"a","m","e","r","i","c","a","n"," ","d","e","f","e","n","s","e">> >>],
       [tag |-> "Regulation", keywords |->
          << <<"i","t","a","r">>, <<"e","a","r"," ">>,
             <<"e","x","p","o","r","t"," ","c","o","n","t","r","o","l">>,
             <<"r","e","g","u","l","a","t","i","o","n">>, <<"p","r","o","c","u","r","e","m","e","n","t">>,
             <<"c","o","m","p","l","i","a","n","c","e">>, <<"s","a","n","c","t","i","o","n">>,
             <<"e","m","b","a","r","g","o">>, <<"d","u","a","l","-","u","s","e">> >>],
       [tag |-> "AI / Autonomy", keywords |->
          << <<"a","r","t","i","f","i","c","i","a","l"," ","i","n","t","e","l","l","i","g","e","n","c","e">>,
             <<" ","a","i"," ">>, <<"a","u","t","o","n","o","m","o","u","s">>,
             <<"a","u","t","o","n","o","m","y">>,
             <<"m","a","c","h","i","n","e"," ","l","e","a","r","n","i","n","g">>,
             <<"c","o","m","p","u","t","e","r"," ","v","i","s","i","o","n">> >>],
       [tag |-> "Space", keywords |->
          << <<"s","a","t","e","l","l","i","t","e">>, <<"s","p","a","c","e">>, <<"o","r","b","i","t">>,
             <<"l","a","u","n","c","h">> >>],
       [tag |-> "Startup", keywords |->
          << <<"s","t","a","r","t","u","p">>, <<"s","t","a","r","t","-","u","p">>,
             <<"s","c","a","l","e","u","p">>, <<"s","c","a","l","e","-","u","p">>,
             <<"a","c","c","e","l","e","r","a","t","o","r">>, <<"i","n","c","u","b","a","t","o","r">> >>] >>

LOW_QUALITY_SOURCES ==
    << <<"y","a","h","o","o",".","c","o","m">>, <<"m","s","n",".","c","o","m">> >>

high_value_terms ==
    << <<"d","e","f","e","n","s","e"," ","t","e","c","h">>,
       <<"d","e","f","e","n","c","e"," ","t","e","c","h">>, <<"d","r","o","n","e">>, <<"u","a","v">>,
       <<"u","k","r","a","i","n","e">>, <<"f","u","n","d","i","n","g">>,
       <<"i","n","v","e","s","t","m","e","n","t">>, <<"s","e","r","i","e","s">>,
       <<"v","e","n","t","u","r","e">>, <<"s","t","a","r","t","u","p">>, <<"i","t","a","r">>,
       <<"e","x","p","o","r","t">>, <<"e","u","r","o","p","e","a","n"," ","d","e","f","e","n","s","e">>,
       <<"e","u"," ","d","e","f","e","n","s","e">>, <<"d","u","a","l","-","u","s","e">>,
       <<"a","u","t","o","n","o","m","o","u","s">>,
       <<"c","o","u","n","t","e","r","-","d","r","o","n","e">> >>

premium_sources ==
    << <<"r","e","u","t","e","r","s">>, <<"b","l","o","o","m","b","e","r","g">>,
       <<"f","i","n","a","n","c","i","a","l"," ","t","i","m","e","s">>,
       <<"d","e","f","e","n","s","e"," ","o","n","e">>, <<"d","e","f","e","n","s","e","n","e","w","s">>,
       <<"j","a","n","e","s">>, <<"b","r","e","a","k","i","n","g"," ","d","e","f","e","n","s","e">>,
       <<"t","h","e"," ","w","a","r"," ","z","o","n","e">>, <<"t","e","c","h","c","r","u","n","c","h">>,
       <<"s","i","f","t","e","d">>, <<"p","i","t","c","h","b","o","o","k">>,
       <<"c","r","u","n","c","h","b","a","s","e">>,
       <<"b","u","s","i","n","e","s","s"," ","w","i","r","e">>,
       <<"g","l","o","b","e","n","e","w","s","w","i","r","e">>,
       <<"d","e","f","e","n","s","e"," ","p","o","s","t">> >>

----------------------------------------------------------------------------
(* Source quality *)

(* lines 297-298: a low-quality domain occurs in the source name or in the link *)
LowQualityMatch(a) ==
    \E j \in DOMAIN LOW_QUALITY_SOURCES :
        \/ Contains(Lower(a.source), LOW_QUALITY_SOURCES[j])
        \/ Contains(Lower(a.link), LOW_QUALITY_SOURCES[j])

(* lines 291-292: a premium name occurs in the source name or in the link *)
PremiumMatch(a) ==
    \E j \in DOMAIN premium_sources :
        \/ Contains(Lower(a.source), premium_sources[j])
        \/ Contains(Lower(a.link), premium_sources[j])

IsBetterSourceOfNew(new, existing) ==
    \E j \in DOMAIN LOW_QUALITY_SOURCES :
        Contains(Lower(new.source \o new.link), LOW_QUALITY_SOURCES[j])

IsBetterSourcePreferPremium(new, existing) ==
    \/ \E j \in DOMAIN LOW_QUALITY_SOURCES :
          Contains(Lower(existing.source \o existing.link), LOW_QUALITY_SOURCES[j])
    \/ PremiumMatch(new) /\ ~PremiumMatch(existing)

(* is_better_source: true iff the EXISTING article's source + link, lowercased,
   contains a low-quality domain; `new` is not looked at *)
is_better_source(new, existing) ==
    \E j \in DOMAIN LOW_QUALITY_SOURCES :
        Contains(Lower(existing.source \o existing.link), LOW_QUALITY_SOURCES[j])

----------------------------------------------------------------------------
(* deduplicate *)

(* lines 217-221: the dedup key of a title *)
DedupKey(title) ==
    Prefix(Strip(CollapseWs(StripPunct(Lower(title)))), KeyLen)

SeenHas(d, key) == \E j \in DOMAIN d : d[j].key = key

SeenGet(d, key) == d[CHOOSE j \in DOMAIN d : d[j].key = key].val

SeenSetMovesToEnd(d, key, a) ==
    Append(SelectSeq(d, LAMBDA e : e.key # key), [key |-> key, val |-> a])

(* OrderedDict.__setitem__: a new key is appended, an existing key keeps its place *)
SeenSet(d, key, a) ==
    IF SeenHas(d, key)
    THEN [j \in DOMAIN d |-> IF d[j].key = key THEN [key |-> key, val |-> a] ELSE d[j]]
    ELSE Append(d, [key |-> key, val |-> a])

(* list(seen.values()) *)
SeenValues(d) == [j \in DOMAIN d |-> d[j].val]

(* line 223-224: the key is new *)
DedupInsert ==
    /\ pc = "dedup"
    /\ idx < Len(articles)
    /\ LET a == articles[idx + 1]
           key == DedupKey(a.title)
       IN  /\ ~SeenHas(seen, key)
           /\ seen' = SeenSet(seen, key, a)
    /\ idx' = idx + 1
    /\ UNCHANGED <<pc, now, max_items, raw, cutoff, articles, deduped, scored, top>>

(* lines 227-229: the key is known and the existing representative gives way *)
DedupReplace ==
    /\ pc = "dedup"
    /\ idx < Len(articles)
    /\ LET a == articles[idx + 1]
           key == DedupKey(a.title)
       IN  /\ SeenHas(seen, key)
           /\ is_better_source(a, SeenGet(seen, key))
           /\ seen' = SeenSet(seen, key, a)
    /\ idx' = idx + 1
    /\ UNCHANGED <<pc, now, max_items, raw, cutoff, articles, deduped, scored, top>>

(* lines 227-228: the key is known and the existing representative stays *)
DedupDiscard ==
    /\ pc = "dedup"
    /\ idx < Len(articles)
    /\ LET a == articles[idx + 1]
           key == DedupKey(a.title)
       IN  /\ SeenHas(seen, key)
           /\ ~is_better_source(a, SeenGet(seen, key))
    /\ idx' = idx + 1
    /\ UNCHANGED <<pc, now, max_items, raw, cutoff, articles, seen, deduped, scored, top>>

(* line 231, and line 609 of main() *)
DedupReturn ==
    /\ pc = "dedup"
    /\ idx = Len(articles)
    /\ deduped' = SeenValues(seen)
    /\ pc' = "score"
    /\ UNCHANGED <<now, max_items, raw, cutoff, articles, idx, seen, scored, top>>

----------------------------------------------------------------------------
(* the clock when main() starts: 100 days after datetime.min *)
Now0 == 100 * SecondsPerDay

----------------------------------------------------------------------------
(* filter_by_date *)

FilterByDateStrict(l, co) ==
    SelectSeq(l, LAMBDA a : a.date = <<>> \/ a.date[1] > co)

(* lines 308-314: undated articles and articles dated at or after the cutoff *)
FilterByDate(l, co) ==
    SelectSeq(l, LAMBDA a : a.date = <<>> \/ a.date[1] >= co)

(* lines 605 and 307: cutoff = now - timedelta(days=max_age_days) *)
FilterStep ==
    /\ pc = "filter"
    /\ cutoff' = now - MAX_AGE_DAYS * SecondsPerDay
    /\ articles' = FilterByDate(raw, cutoff')
    /\ pc' = "dedup"
    /\ UNCHANGED <<now, max_items, raw, idx, seen, deduped, scored, top>>

----------------------------------------------------------------------------
(* assign_tags *)

Fallback == <<"Defense Tech">>

(* line 251: kw.lower(), for every keyword of every rule *)
LoweredRules ==
    [r \in DOMAIN TAG_RULES |->
        [tag |-> TAG_RULES[r].tag,
         keywords |-> [j \in DOMAIN TAG_RULES[r].keywords |->
                          Lower(TAG_RULES[r].keywords[j])]]]

RECURSIVE RuleTagsNoBreakFrom(_, _, _)
RuleTagsNoBreakFrom(rule, text, j) ==
    IF j > Len(rule.keywords) THEN <<>>
    ELSE (IF Contains(text, rule.keywords[j]) THEN <<rule.tag>> ELSE <<>>)
         \o RuleTagsNoBreakFrom(rule, text, j + 1)

RuleTagsNoBreak(rule, text) == RuleTagsNoBreakFrom(rule, text, 1)

(* lines 250-253: the inner loop appends the tag at the first (lowered) keyword
   found in the text and breaks *)
RuleTags(rule, text) ==
    IF \E j \in DOMAIN rule.keywords : Contains(text, rule.keywords[j])
    THEN <<rule.tag>>
    ELSE <<>>

RECURSIVE TagsFrom(_, _)
TagsFrom(text, j) ==
    IF j > Len(LoweredRules) THEN <<>>
    ELSE RuleTags(LoweredRules[j], text) \o TagsFrom(text, j + 1)

(* lines 244-246 *)
TagText(article) == Lower(article.title) \o <<" ">> \o Lower(article.description)

(* lines 248-255 *)
assign_tags(article) ==
    LET tags == TagsFrom(TagText(article), 1)
    IN  IF tags # <<>> THEN tags ELSE Fallback

----------------------------------------------------------------------------
(* score_article *)

(* line 264: (now - date).days, the floor of the difference in days *)
AgeDays(date, t) == (t - date) \div SecondsPerDay

(* lines 263-265 *)
Recency(article, t) ==
    IF article.date # <<>>
    THEN Max(0, RecencyMax - AgeDays(article.date[1], t))
    ELSE 0

(* lines 278-280 *)
TermScore(article) ==
    TermWeight *
        Cardinality({j \in DOMAIN high_value_terms :
                        Contains(Lower(article.title), high_value_terms[j])})

(* lines 289-300 *)
SourceScore(article) ==
    (IF PremiumMatch(article) THEN PremiumBonus ELSE 0)
    - (IF LowQualityMatch(article) THEN LowQualityPenalty ELSE 0)

(* lines 258-302, with t the value datetime.now() returns *)
score_article(article, tags, t) ==
    Recency(article, t) + Len(tags) * TagWeight + TermScore(article)
        + SourceScore(article)

(* lines 614-617: one iteration of the scoring loop of main() *)
ScoreStep ==
    /\ pc = "score"
    /\ Len(scored) < Len(deduped)
    /\ LET a == deduped[Len(scored) + 1]
           tags == assign_tags(a)
       IN  scored' = Append(scored, <<a, tags, score_article(a, tags, now)>>)
    /\ UNCHANGED <<pc, now, max_items, raw, cutoff, articles, idx, seen, deduped, top>>

MaxElapsed == 1

(* the clock advances while the scoring loop runs *)
Tick ==
    /\ pc = "score"
    /\ Len(scored) < Len(deduped)
    /\ now < Now0 + MaxElapsed
    /\ now' = now + 1
    /\ UNCHANGED <<pc, max_items, raw, cutoff, articles, idx, seen, deduped, scored, top>>

----------------------------------------------------------------------------
(* selection and display order in main() *)

(* list.sort(key=..., reverse=True) is stable: equal keys keep their order.
   Entries are <<key, item>>. *)
RECURSIVE InsertDesc(_, _)
InsertDesc(s, p) ==
    IF s = <<>> THEN <<p>>
    ELSE IF Head(s)[1] >= p[1] THEN <<Head(s)>> \o InsertDesc(Tail(s), p)
         ELSE <<p>> \o s

RECURSIVE SortPairsDesc(_)
SortPairsDesc(ps) ==
    IF ps = <<>> THEN <<>>
    ELSE InsertDesc(SortPairsDesc(SubSeq(ps, 1, Len(ps) - 1)), ps[Len(ps)])

RECURSIVE InsertAsc(_, _)
InsertAsc(s, p) ==
    IF s = <<>> THEN <<p>>
    ELSE IF Head(s)[1] <= p[1] THEN <<Head(s)>> \o InsertAsc(Tail(s), p)
         ELSE <<p>> \o s

RECURSIVE SortPairsAsc(_)
SortPairsAsc(ps) ==
    IF ps = <<>> THEN <<>>
    ELSE InsertAsc(SortPairsAsc(SubSeq(ps, 1, Len(ps) - 1)), ps[Len(ps)])

Items(ps) == [j \in DOMAIN ps |-> ps[j][2]]

SortByScoreAsc(l) ==
    Items(SortPairsAsc([j \in DOMAIN l |-> <<l[j][3], l[j]>>]))

(* line 620: scored.sort(key=lambda x: x[2], reverse=True) *)
SortByScore(l) ==
    Items(SortPairsDesc([j \in DOMAIN l |-> <<l[j][3], l[j]>>]))

(* line 626: x[0]['date'] or datetime.min *)
DateKey(article) ==
    IF article.date # <<>> THEN article.date[1] ELSE DatetimeMin

SortByDateAsc(l) ==
    Items(SortPairsAsc([j \in DOMAIN l |-> <<DateKey(l[j][1]), l[j]>>]))

(* line 626: top.sort(key=..., reverse=True) *)
SortByDate(l) ==
    Items(SortPairsDesc([j \in DOMAIN l |-> <<DateKey(l[j][1]), l[j]>>]))

(* line 623: scored[:MAX_ITEMS] *)
TakeTop(l, limit) == Prefix(l, limit)

(* line 620 *)
SortStep ==
    /\ pc = "score"
    /\ Len(scored) = Len(deduped)
    /\ scored' = SortByScore(scored)
    /\ pc' = "take"
    /\ UNCHANGED <<now, max_items, raw, cutoff, articles, idx, seen, deduped, top>>

(* line 623 *)
TakeStep ==
    /\ pc = "take"
    /\ top' = TakeTop(scored, max_items)
    /\ pc' = "resort"
    /\ UNCHANGED <<now, max_items, raw, cutoff, articles, idx, seen, deduped, scored>>

(* line 626; the list is then handed to generate_html *)
ResortStep ==
    /\ pc = "resort"
    /\ top' = SortByDate(top)
    /\ pc' = "render"
    /\ UNCHANGED <<now, max_items, raw, cutoff, articles, idx, seen, deduped, scored>>

----------------------------------------------------------------------------
(* Inputs *)

(* the dict parse_rss appends, lines 188-194 *)
Article(title, source, link, date, description) ==
    [title |-> title, link |-> link, date |-> date, source |-> source,
     description |-> description]

Text(title, source, link) == Article(title, source, link, <<>>, <<>>)

Https == <<"h","t","t","p","s",":","/","/">>

(* n copies of "x" *)
Pad(n) == [j \in 1..n |-> "x"]

SrcReuters == <<<<"R","e","u","t","e","r","s">>, Https \o <<"r","e","u","t","e","r","s",".","c","o","m","/","a">>>>
SrcMsnLink == <<<<"M","S","N">>, Https \o <<"w","w","w",".","m","s","n",".","c","o","m","/","a">>>>
SrcYahooName == <<<<"Y","a","h","o","o",".","c","o","m">>, Https \o <<"n",".","g","o","/","a">>>>
SrcNeutral == <<<<"m","s","n">>, Https \o <<"n",".","g","o","/","b">>>>
SrcReutersOnMsn == <<<<"R","e","u","t","e","r","s">>, Https \o <<"m","s","n",".","c","o","m","/","r">>>>

DedupSources == {SrcReuters, SrcMsnLink, SrcYahooName, SrcNeutral, SrcReutersOnMsn}

DedupPool ==
    {Text(t, s[1], s[2]) : t \in {<<"A","b">>, <<"a","-","b","!">>}, s \in DedupSources}
    \cup {Text(t, SrcNeutral[1], SrcNeutral[2]) :
            t \in {<<"a","\t","b">>, <<"a"," "," ","B">>,
                   Pad(KeyLen - 1) \o <<"a","b">>, Pad(KeyLen - 1) \o <<"a","c">>}}

MaxArticles == 3

RECURSIVE ListsUpTo(_, _)
ListsUpTo(S, n) ==
    IF n = 0 THEN {<<>>}
    ELSE LET shorter == ListsUpTo(S, n - 1)
         IN  shorter \cup {Append(l, x) : l \in shorter, x \in S}

InitDedup ==
    /\ pc = "dedup"
    /\ now = Now0
    /\ max_items = MAX_ITEMS
    /\ raw = <<>>
    /\ cutoff = now - MAX_AGE_DAYS * SecondsPerDay
    /\ articles \in ListsUpTo(DedupPool, MaxArticles)
    /\ idx = 0
    /\ seen = <<>>
    /\ deduped = <<>>
    /\ scored = <<>>
    /\ top = <<>>

NextDedup == DedupInsert \/ DedupReplace \/ DedupDiscard \/ DedupReturn

SpecDedup == InitDedup /\ [][NextDedup]_vars

(* filter_by_date on its own: one title, every kind of date *)
FilterDates ==
    {<<>>, <<Now0>>, <<Now0 + SecondsPerDay>>,
     <<Now0 - MAX_AGE_DAYS * SecondsPerDay + 1>>,
     <<Now0 - MAX_AGE_DAYS * SecondsPerDay>>,
     <<Now0 - MAX_AGE_DAYS * SecondsPerDay - 1>>,
     <<Now0 - (MAX_AGE_DAYS + 1) * SecondsPerDay>>,
     <<DatetimeMin>>}

FilterPool == {Article(<<"a">>, SrcNeutral[1], SrcNeutral[2], d, <<>>) : d \in FilterDates}

InitFilter ==
    /\ pc = "filter"
    /\ now = Now0
    /\ max_items = MAX_ITEMS
    /\ raw \in ListsUpTo(FilterPool, MaxArticles)
    /\ cutoff = 0
    /\ articles = <<>>
    /\ idx = 0
    /\ seen = <<>>
    /\ deduped = <<>>
    /\ scored = <<>>
    /\ top = <<>>

NextFilter == FilterStep

SpecFilter == InitFilter /\ [][NextFilter]_vars

(* assign_tags and score_article on one article *)
TagTokens ==
    {<<"D","r","o","n","e">>, <<"U","A","V">>, <<" ">>, <<"E","U">>, <<"v","c">>,
     <<"A","I">>, <<"z","z">>, <<"s","e","e","d">>}

MaxWords == 2

RECURSIVE Phrases(_)
Phrases(n) ==
    IF n = 0 THEN {<<>>}
    ELSE LET shorter == Phrases(n - 1)
         IN  shorter \cup {p \o w : p \in shorter, w \in TagTokens}

ScoreDates ==
    {<<>>, <<Now0>>, <<Now0 + 1>>, <<Now0 + 2 * SecondsPerDay>>,
     <<Now0 - SecondsPerDay + 1>>, <<Now0 - (RecencyMax - 1) * SecondsPerDay>>,
     <<Now0 - (RecencyMax + 1) * SecondsPerDay>>}

ScorePool ==
    {Article(t, s[1], s[2], d, desc) :
        t \in Phrases(MaxWords) \ {<<>>}, s \in {SrcReuters, SrcMsnLink},
        d \in ScoreDates, desc \in {<<>>, <<"u","a","s">>}}

InitScore ==
    /\ pc = "score"
    /\ now = Now0
    /\ max_items = MAX_ITEMS
    /\ raw = <<>>
    /\ cutoff = now - MAX_AGE_DAYS * SecondsPerDay
    /\ articles = <<>>
    /\ idx = 0
    /\ seen = <<>>
    /\ \E a \in ScorePool : deduped = <<a>>
    /\ scored = <<>>
    /\ top = <<>>

NextScore == ScoreStep \/ Tick

SpecScore == InitScore /\ [][NextScore]_vars

(* main() from the collected articles to the list handed to generate_html *)
PipelinePool ==
    {Article(<<"D","r","o","n","e"," ","a">>, SrcReuters[1], SrcReuters[2], <<Now0 - 3600>>, <<>>),
     Article(<<"b">>, SrcNeutral[1], SrcNeutral[2], <<>>, <<>>),
     Article(<<"B","!">>, SrcMsnLink[1], SrcMsnLink[2], <<Now0 - 60>>, <<>>),
     Article(<<"c">>, SrcNeutral[1], SrcNeutral[2], <<Now0 - MAX_AGE_DAYS * SecondsPerDay>>, <<>>),
     Article(<<"e">>, SrcReuters[1], SrcReuters[2], <<DatetimeMin>>, <<>>),
     Article(<<"h">>, SrcNeutral[1], SrcNeutral[2], <<>>, <<>>),
     Article(<<"U","A","V"," ","g">>, SrcNeutral[1], SrcNeutral[2], <<Now0 + SecondsPerDay>>, <<>>)}

MaxLimit == 2

(* MAX_ITEMS is configuration: the shipped value and the small ones *)
Limits == (0..MaxLimit) \cup {MAX_ITEMS}

Init ==
    /\ pc = "filter"
    /\ now = Now0
    /\ max_items \in Limits
    /\ raw \in ListsUpTo(PipelinePool, MaxArticles)
    /\ cutoff = 0
    /\ articles = <<>>
    /\ idx = 0
    /\ seen = <<>>
    /\ deduped = <<>>
    /\ scored = <<>>
    /\ top = <<>>

Next ==
    \/ FilterStep
    \/ DedupInsert \/ DedupReplace \/ DedupDiscard \/ DedupReturn
    \/ ScoreStep \/ Tick
    \/ SortStep \/ TakeStep \/ ResortStep

Spec == Init /\ [][Next]_vars

----------------------------------------------------------------------------
(* Properties of deduplicate *)

DedupDone == pc = "score"

Keys(l) == [j \in DOMAIN l |-> DedupKey(l[j].title)]

(* the keys of l in the order in which each first occurs *)
RECURSIVE FirstOccurrences(_)
FirstOccurrences(ks) ==
    IF ks = <<>> THEN <<>>
    ELSE LET init == SubSeq(ks, 1, Len(ks) - 1)
             last == ks[Len(ks)]
         IN  IF last \in Range(init) THEN FirstOccurrences(init)
             ELSE Append(FirstOccurrences(init), last)

(* C1: deduplicate([A, B]) with equal keys: a premium, not low-quality A is kept
   against a low-quality B; a low-quality A is replaced by B whatever B is. *)
C1_DedupAsymmetry ==
    (DedupDone /\ Len(articles) = 2
        /\ DedupKey(articles[1].title) = DedupKey(articles[2].title)) =>
        LET A == articles[1]
            B == articles[2]
        IN  /\ (PremiumMatch(A) /\ ~LowQualityMatch(A) /\ LowQualityMatch(B))
                    => deduped = <<A>>
            /\ LowQualityMatch(A) => deduped = <<B>>

C1_Witness ==
    /\ DedupDone /\ Len(articles) = 2
    /\ DedupKey(articles[1].title) = DedupKey(articles[2].title)
    /\ LowQualityMatch(articles[1]) /\ PremiumMatch(articles[2])
    /\ articles[1] # articles[2]
    /\ deduped = <<articles[2]>>

(* the normalisation the comment of deduplicate describes: lowercase, strip
   punctuation, collapse whitespace; then the first KeyLen characters *)
IsPunct(c) == ~(c \in Whitespace) /\ ~KeptChar(LowerChar(c))

StoryText(title) ==
    Prefix(Strip(CollapseWs(SelectSeq(Lower(title), LAMBDA c : ~IsPunct(c)))), KeyLen)

(* C2: two titles that differ only by punctuation, letter case or whitespace
   within the first 60 normalised characters yield one representative. *)
C2_SameStoryOneRepresentative ==
    (DedupDone /\ Len(articles) = 2
        /\ StoryText(articles[1].title) = StoryText(articles[2].title))
        => Len(deduped) = 1

(* C3: one representative per distinct key, in the order in which the keys first
   occurred in the input, also where a representative was replaced. *)
C3_FirstOccurrenceOrder ==
    DedupDone => Keys(deduped) = FirstOccurrences(Keys(articles))

C3_Witness ==
    /\ DedupDone /\ Len(articles) = 3 /\ Len(deduped) = 2
    /\ DedupKey(articles[1].title) = DedupKey(articles[3].title)
    /\ DedupKey(articles[1].title) # DedupKey(articles[2].title)
    /\ articles[1] # articles[3]
    /\ deduped = <<articles[3], articles[2]>>

(* positions of the input that carry key k *)
WithKey(k) == {j \in DOMAIN articles : DedupKey(articles[j].title) = k}

Least(S) == CHOOSE j \in S : \A m \in S : j <= m

Greatest(S) == CHOOSE j \in S : \A m \in S : j >= m

(* the result of the fold: the representative of a key is the first article with
   that key that is not low-quality, or the last article with that key if all are *)
FoldResult ==
    DedupDone =>
        \A e \in Range(deduped) :
            LET k == DedupKey(e.title)
                good == {j \in WithKey(k) : ~LowQualityMatch(articles[j])}
            IN  e = IF good # {} THEN articles[Least(good)]
                    ELSE articles[Greatest(WithKey(k))]

C10_Witness ==
    /\ DedupDone /\ Len(articles) = 3 /\ Len(deduped) = 1
    /\ LowQualityMatch(articles[1])
    /\ ~LowQualityMatch(articles[2])
    /\ articles[3] # articles[2]
    /\ deduped = <<articles[2]>>

(* a representative that is not low-quality is never replaced *)
GoodRepresentativeStays ==
    \A j \in DOMAIN seen :
        ~LowQualityMatch(seen[j].val) => (j \in DOMAIN seen' /\ seen'[j] = seen[j])

(* C10: after deduplicate, the representative of each key is the first article
   with that key that is not from a low-quality source, or the last article with
   that key if all are low-quality; and once a representative that is not
   low-quality is installed, no later article replaces it. *)
C10_DedupFold == [](FoldResult) /\ [][GoodRepresentativeStays]_vars

----------------------------------------------------------------------------
(* Properties of assign_tags and score_article *)

RuleMatches(r, text) ==
    \E j \in DOMAIN TAG_RULES[r].keywords : Contains(text, TAG_RULES[r].keywords[j])

RuleIndex(tag) == CHOOSE r \in DOMAIN TAG_RULES : TAG_RULES[r].tag = tag

TagNames == {TAG_RULES[r].tag : r \in DOMAIN TAG_RULES}

(* C4: assign_tags returns a non-empty list without repeated labels; the labels
   are those of the categories with a keyword in the text, in declaration order;
   with no keyword in the text the list is exactly the fallback label. *)
C4_TaggingTotality ==
    \A e \in Range(scored) :
        LET text == TagText(e[1])
            tags == e[2]
            matching == {r \in DOMAIN TAG_RULES : RuleMatches(r, text)}
        IN  /\ Len(tags) >= 1
            /\ \A j, k \in DOMAIN tags : j # k => tags[j] # tags[k]
            /\ matching = {} => tags = <<"Defense Tech">>
            /\ matching # {} =>
                  /\ Range(tags) = {TAG_RULES[r].tag : r \in matching}
                  /\ \A j, k \in DOMAIN tags :
                        j < k => RuleIndex(tags[j]) < RuleIndex(tags[k])

C4_Witness ==
    /\ Len(scored) = 1
    /\ scored[1][2] = <<"UAV / Drones", "EU Policy">>
    /\ Contains(Lower(scored[1][1].title), <<"d","r","o","n","e">>)
    /\ scored[1][1].description = <<"u","a","s">>

Abs(n) == IF n >= 0 THEN n ELSE -n

WithDate(a, d) == [a EXCEPT !.date = d]

(* the part of a recorded score that is not tags, terms or source: the recency
   contribution *)
RecencyPart(e) == e[3] - Len(e[2]) * TagWeight - TermScore(e[1]) - SourceScore(e[1])

(* a date at least as close to the clock never scores less for recency *)
CloserDateNeverLess ==
    \A e \in Range(scored) :
        e[1].date # <<>> =>
            \A d \in ScoreDates \ {<<>>} :
                Abs(now - d[1]) <= Abs(now - e[1].date[1])
                    => Recency(WithDate(e[1], d), now) >= RecencyPart(e)

(* a later date (a smaller age) never scores less for recency *)
LaterDateNeverLess ==
    \A e \in Range(scored) :
        e[1].date # <<>> =>
            \A d \in ScoreDates \ {<<>>} :
                d[1] >= e[1].date[1]
                    => Recency(WithDate(e[1], d), now) >= RecencyPart(e)

(* one more tag adds exactly 8 to the score *)
OneMoreTagAddsEight ==
    \A e \in Range(scored) :
        \A t \in TagNames \cup {"Defense Tech"} :
            score_article(e[1], Append(e[2], t), now) = e[3] + 8

(* C8: moving the date of an article closer to now never decreases the recency
   contribution of score_article, and one more tag adds exactly 8 to the score. *)
C8_ScoringMonotonicity == CloserDateNeverLess /\ OneMoreTagAddsEight

(* C9: the recency contribution is an integer from 0 to 60, and 0 for an article
   without a date, whatever the date, a date after the clock included. *)
C9_RecencyBound ==
    \A e \in Range(scored) :
        /\ RecencyPart(e) \in 0..60
        /\ e[1].date = <<>> => RecencyPart(e) = 0

----------------------------------------------------------------------------
(* Properties of filter_by_date *)

Filtered == pc = "dedup"

DatedAgo(a, seconds) == a.date = <<now - seconds>>

(* C5: filter_by_date returns, in input order, exactly the articles without a
   date or with now - date <= max_age_days; an article dated exactly
   max_age_days ago is kept, one dated a day earlier is dropped, an undated one
   is kept. *)
C5_AgeFilter ==
    Filtered =>
        /\ articles = SelectSeq(raw, LAMBDA a :
                a.date = <<>> \/ now - a.date[1] <= MAX_AGE_DAYS * SecondsPerDay)
        /\ \A j \in DOMAIN raw :
              /\ DatedAgo(raw[j], MAX_AGE_DAYS * SecondsPerDay)
                    => raw[j] \in Range(articles)
              /\ DatedAgo(raw[j], (MAX_AGE_DAYS + 1) * SecondsPerDay)
                    => raw[j] \notin Range(articles)
              /\ raw[j].date = <<>> => raw[j] \in Range(articles)

C5_Witness ==
    /\ Filtered /\ Len(raw) = 3 /\ Len(articles) = 2
    /\ DatedAgo(raw[1], (MAX_AGE_DAYS + 1) * SecondsPerDay)
    /\ DatedAgo(raw[2], MAX_AGE_DAYS * SecondsPerDay)
    /\ raw[3].date = <<>>
    /\ articles = <<raw[2], raw[3]>>

----------------------------------------------------------------------------
(* Properties of the selection and of the display order *)

(* the place of a candidate in the order in which it was scored *)
InputPos(e) == CHOOSE j \in DOMAIN deduped : deduped[j] = e[1]

(* C6: sorting by score and truncating returns min(limit, number of candidates)
   items; no excluded candidate has a greater score than a selected one, nor an
   equal score and an earlier place in the input. *)
C6_Selection ==
    pc = "resort" =>
        /\ Len(top) = Min(max_items, Len(deduped))
        /\ Cardinality(Range(top)) = Len(top)
        /\ Range(top) \subseteq Range(scored)
        /\ \A e \in Range(top) : \A x \in Range(scored) \ Range(top) :
              /\ ~(x[3] > e[3])
              /\ ~(x[3] = e[3] /\ InputPos(x) < InputPos(e))

C6_Witness ==
    /\ pc = "resort" /\ Len(scored) = 3 /\ max_items = 2 /\ Len(top) = 2
    /\ \E e \in Range(top) : \E x \in Range(scored) \ Range(top) :
          x[3] = e[3] /\ InputPos(e) < InputPos(x)
    /\ top[1][3] > top[2][3]

(* C7: in the list handed to rendering dated entries are in descending date
   order and undated entries come after all dated ones; the list has the same
   members as the selection (the first entries of the score order). *)
C7_FinalOrdering ==
    pc = "render" =>
        /\ \A j, k \in DOMAIN top :
              (j < k /\ top[j][1].date # <<>> /\ top[k][1].date # <<>>)
                  => top[j][1].date[1] >= top[k][1].date[1]
        /\ \A j, k \in DOMAIN top :
              (j < k /\ top[j][1].date = <<>>) => top[k][1].date = <<>>
        /\ Len(top) = Min(max_items, Len(scored))
        /\ Range(top) = {scored[j] : j \in 1..Len(top)}

C7_Witness ==
    /\ pc = "render" /\ Len(scored) = 3 /\ max_items = 2 /\ Len(top) = 2
    /\ top = <<scored[2], scored[1]>>
    /\ top[1][1].date # <<>> /\ top[2][1].date # <<>>

====
